---- MODULE Spec2Model ----
(***************************************************************************)
(* Model of the csv_reader ledger: the Account entity (model/account.rs),  *)
(* the in-memory storage (adapter/account_storage.rs) and the              *)
(* AccountManager orchestrator (service/account_manager.rs), called by     *)
(* several threads through one RwLock.                                     *)
(*                                                                         *)
(* Decimal amounts are modelled as integers (exact arithmetic, no          *)
(* rounding); the bounds keep every balance far from Decimal's range.      *)
(***************************************************************************)
EXTENDS Integers, FiniteSets, Sequences, TLC

\* ---------------------------------------------------------------- bounds
\* The orders a single caller may submit.
NumClients == 2
NumTx == 2
MaxAmount == 2
\* The threads that share the manager, and the (smaller) set of orders they
\* may submit.
NumThreads == 2
SharedClients == 1
SharedTx == 2
SharedAmount == 1
\* chargebacks accepted in one behaviour (each one lowers a balance for good)
MaxChargebacks == 2
\* The orders of the single caller whose accepted orders are recorded.
HistoryClients == 1
HistoryAmount == 1
\* the accountant fed through the channel: transaction ids, orders sent
PipeTx == 2
PipeSent == 3
\* the reader's file: transaction ids, largest amount, number of records
CsvTx == 1
CsvAmount == 1
MaxRows == 3

Clients == 1..NumClients
TxIds == 1..NumTx
Amounts == 1..MaxAmount
Threads == 1..NumThreads
\* the one caller of the single-caller specification
SingleCaller == {1}

\* What the callers of a behaviour are and may submit; fixed by Init.
SingleEnv ==
    [callers |-> SingleCaller, clients |-> Clients, tx_ids |-> TxIds, amounts |-> Amounts,
     recorded |-> FALSE, piped |-> FALSE]
SharedEnv ==
    [callers |-> Threads, clients |-> 1..SharedClients, tx_ids |-> 1..SharedTx,
     amounts |-> 1..SharedAmount, recorded |-> FALSE, piped |-> FALSE]
HistoryEnv ==
    [callers |-> SingleCaller, clients |-> 1..HistoryClients, tx_ids |-> TxIds,
     amounts |-> 1..HistoryAmount, recorded |-> TRUE, piped |-> FALSE]

\* ------------------------------------------------ model/transaction.rs
\* TransactionKind: a closed set of variants, each carrying one argument
\* (an amount for Deposit/Withdrawal, a related TxId for the others).
TransactionKind(e) ==
    [type : {"Deposit", "Withdrawal"}, arg : e.amounts]
        \cup [type : {"Dispute", "Resolve", "ChargeBack"}, arg : e.tx_ids]

TransactionOrder(e) == [tx_id : e.tx_ids, client_id : e.clients, kind : TransactionKind(e)]

\* TransactionKindError
NoKindError == [kind |-> "None"]
NegativeOrZeroAmount(amount) == [kind |-> "NegativeOrZeroAmount", amount |-> amount]
UnknownKind(val) == [kind |-> "UnknownKind", val |-> val]
MissingAmount == [kind |-> "MissingAmount"]

check_non_negative_amount(amount) ==
    IF amount < 0
    THEN [ok |-> FALSE, amount |-> 0, err |-> NegativeOrZeroAmount(amount)]
    ELSE [ok |-> TRUE, amount |-> amount, err |-> NoKindError]

\* TransactionKind::check_positive_amount
check_positive_amount(amount) ==
    IF amount <= 0
    THEN [ok |-> FALSE, amount |-> 0, err |-> NegativeOrZeroAmount(amount)]
    ELSE [ok |-> TRUE, amount |-> amount, err |-> NoKindError]

\* CSVTransactionEntity: the `type` strings a file may hold (one of them in
\* mixed case, one unknown), and the optional amount, negative ones included
CSVTypes == {"deposit", "Withdrawal", "dispute", "resolve", "chargeback", "whatever"}
CSVAmounts == {[some |-> FALSE]} \cup {[some |-> TRUE, val |-> a] : a \in (0 - 1)..CsvAmount}
CSVTransactionEntity ==
    [type : CSVTypes, client : 1..HistoryClients, tx : 1..CsvTx, amount : CSVAmounts]

\* str::to_lowercase on those strings
to_lowercase(str) == IF str = "Withdrawal" THEN "withdrawal" ELSE str

NoOrder == [tx_id |-> 0, client_id |-> 0, kind |-> [type |-> "None", arg |-> 0]]

\* impl TryFrom<CSVTransactionEntity> for TransactionOrder
try_from(entity) ==
    LET type == to_lowercase(entity.type)
        Made(kind) ==
            [ok |-> TRUE, err |-> NoKindError,
             order |-> [tx_id |-> entity.tx, client_id |-> entity.client, kind |-> kind]]
        Failed(err) == [ok |-> FALSE, err |-> err, order |-> NoOrder]
    IN IF type \in {"deposit", "withdrawal"}
       THEN IF ~entity.amount.some
            THEN Failed(MissingAmount)
            ELSE LET r == check_positive_amount(entity.amount.val)
                 IN IF ~r.ok
                    THEN Failed(r.err)
                    ELSE Made([type |-> IF type = "deposit" THEN "Deposit" ELSE "Withdrawal",
                               arg |-> r.amount])
       ELSE IF type = "dispute" THEN Made([type |-> "Dispute", arg |-> entity.tx])
       ELSE IF type = "resolve" THEN Made([type |-> "Resolve", arg |-> entity.tx])
       ELSE IF type = "chargeback" THEN Made([type |-> "ChargeBack", arg |-> entity.tx])
       ELSE Failed(UnknownKind(type))

\* impl From<TransactionOrder> for Transaction
Transaction(order) ==
    [tx_id |-> order.tx_id, client_id |-> order.client_id, kind |-> order.kind]

NoTransaction == [tx_id |-> 0, client_id |-> 0, kind |-> [type |-> "None", arg |-> 0]]

\* ------------------------------------------------------ results, errors
NoError == [kind |-> "None"]
AccountLocked == [kind |-> "AccountLocked"]
InsufficientAvailableFunds(available, requested) ==
    [kind |-> "InsufficientAvailableFunds", available |-> available, requested |-> requested]
InsufficientHeldFunds(held, requested) ==
    [kind |-> "InsufficientHeldFunds", held |-> held, requested |-> requested]
DuplicateTransactionId(tx_id) == [kind |-> "DuplicateTransactionId", tx_id |-> tx_id]
RelatedTransactionNotFound(tx_id) == [kind |-> "RelatedTransactionNotFound", tx_id |-> tx_id]
NonDisputedTransaction(tx_id) == [kind |-> "NonDisputedTransaction", tx_id |-> tx_id]
AlreadyDisputedTransaction(tx_id) == [kind |-> "AlreadyDisputedTransaction", tx_id |-> tx_id]
RelatedTransactionNotDisputable(tx_id) ==
    [kind |-> "RelatedTransactionNotDisputable", tx_id |-> tx_id]
\* the anyhow! messages of the storage
TransactionAlreadyExists(tx_id) == [kind |-> "TransactionAlreadyExists", tx_id |-> tx_id]
TransactionDoesNotExist(tx_id) == [kind |-> "TransactionDoesNotExist", tx_id |-> tx_id]

\* Option<T>
None == [some |-> FALSE]
Some(x) == [some |-> TRUE, val |-> x]

\* ---------------------------------------------------- model/account.rs
NewAccount(client_id) ==
    [client_id |-> client_id, available |-> 0, held |-> 0, total |-> 0, locked |-> FALSE]

\* Result<()> of an Account method: on Ok `self` is the mutated account, on
\* Err `self` is the account as the method left it.
AccOk(self) == [ok |-> TRUE, self |-> self, err |-> NoError]
AccErr(self, err) == [ok |-> FALSE, self |-> self, err |-> err]

check_locked(self) ==
    IF self.locked THEN AccErr(self, AccountLocked) ELSE AccOk(self)

update_total_forgets_held(self) ==
    AccOk([self EXCEPT !.total = self.available])

update_total(self) ==
    AccOk([self EXCEPT !.total = self.available + self.held])

deposit_overwrites(self, amount) ==
    IF ~check_locked(self).ok
    THEN check_locked(self)
    ELSE update_total([self EXCEPT !.available = amount])

deposit(self, amount) ==
    IF ~check_locked(self).ok
    THEN check_locked(self)
    ELSE update_total([self EXCEPT !.available = @ + amount])

withdraw_up_to_total(self, amount) ==
    IF ~check_locked(self).ok
    THEN check_locked(self)
    ELSE IF self.total < amount
         THEN AccErr(self, InsufficientAvailableFunds(self.available, amount))
         ELSE update_total([self EXCEPT !.available = @ - amount])

withdraw_checks_funds_first(self, amount) ==
    IF self.available < amount
    THEN AccErr(self, InsufficientAvailableFunds(self.available, amount))
    ELSE IF ~check_locked(self).ok
         THEN check_locked(self)
         ELSE update_total([self EXCEPT !.available = @ - amount])

withdraw_strict(self, amount) ==
    IF ~check_locked(self).ok
    THEN check_locked(self)
    ELSE IF self.available <= amount
         THEN AccErr(self, InsufficientAvailableFunds(self.available, amount))
         ELSE update_total([self EXCEPT !.available = @ - amount])

withdraw(self, amount) ==
    IF ~check_locked(self).ok
    THEN check_locked(self)
    ELSE IF self.available < amount
         THEN AccErr(self, InsufficientAvailableFunds(self.available, amount))
         ELSE update_total([self EXCEPT !.available = @ - amount])

dispute_keeps_held(self, amount) ==
    update_total([self EXCEPT !.available = @ - amount])

dispute_checks_funds(self, amount) ==
    IF self.available < amount
    THEN AccErr(self, InsufficientAvailableFunds(self.available, amount))
    ELSE update_total([self EXCEPT !.available = @ - amount, !.held = @ + amount])

dispute(self, amount) ==
    update_total([self EXCEPT !.available = @ - amount, !.held = @ + amount])

resolve_keeps_held(self, amount) ==
    IF amount > self.held
    THEN AccErr(self, InsufficientHeldFunds(self.held, amount))
    ELSE update_total([self EXCEPT !.available = @ + amount])

resolve(self, amount) ==
    IF amount > self.held
    THEN AccErr(self, InsufficientHeldFunds(self.held, amount))
    ELSE update_total([self EXCEPT !.available = @ + amount, !.held = @ - amount])

chargeback_floored(self, amount) ==
    IF amount > self.held
    THEN AccErr(self, InsufficientHeldFunds(self.held, amount))
    ELSE IF self.total < amount
    THEN AccErr(self, InsufficientAvailableFunds(self.available, amount))
    ELSE update_total([self EXCEPT !.held = @ - amount, !.locked = TRUE])

chargeback_refunds(self, amount) ==
    IF amount > self.held
    THEN AccErr(self, InsufficientHeldFunds(self.held, amount))
    ELSE update_total([self EXCEPT !.held = @ - amount, !.available = @ + amount,
                                   !.locked = TRUE])

chargeback_keeps_held(self, amount) ==
    IF amount > self.held
    THEN AccErr(self, InsufficientHeldFunds(self.held, amount))
    ELSE update_total([self EXCEPT !.available = @ - amount, !.locked = TRUE])

chargeback_without_lock(self, amount) ==
    IF amount > self.held
    THEN AccErr(self, InsufficientHeldFunds(self.held, amount))
    ELSE update_total([self EXCEPT !.held = @ - amount])

chargeback_toggles_lock(self, amount) ==
    IF amount > self.held
    THEN AccErr(self, InsufficientHeldFunds(self.held, amount))
    ELSE update_total([self EXCEPT !.held = @ - amount, !.locked = ~@])

chargeback(self, amount) ==
    IF amount > self.held
    THEN AccErr(self, InsufficientHeldFunds(self.held, amount))
    ELSE update_total([self EXCEPT !.held = @ - amount, !.locked = TRUE])

\* ------------------------------------------ adapter/account_storage.rs
\* InMemoryAccountStorage: two hash maps (functions whose DOMAIN is the key
\* set) and a hash set.
EmptyStorage == [accounts |-> <<>>, transactions |-> <<>>, disputed |-> {}]

Insert(map, key, value) ==
    [k \in (DOMAIN map) \cup {key} |-> IF k = key THEN value ELSE map[k]]

get_account(st, client_id) ==
    IF client_id \in DOMAIN st.accounts THEN Some(st.accounts[client_id]) ELSE None

get_transaction(st, tx_id) ==
    IF tx_id \in DOMAIN st.transactions THEN Some(st.transactions[tx_id]) ELSE None

\* get_accounts: the stored accounts, one record per key of the accounts
\* map, in an order the storage does not fix (every order is possible).
get_accounts(st) ==
    LET n == Cardinality(DOMAIN st.accounts)
    IN {[i \in 1..n |-> st.accounts[f[i]]] :
           f \in {g \in [1..n -> DOMAIN st.accounts] :
                     \A i, j \in 1..n : g[i] = g[j] => i = j}}

is_disputed_forgets(st, tx_id) ==
    IF tx_id \in DOMAIN st.transactions THEN Some(FALSE) ELSE None

is_disputed(st, tx_id) ==
    IF tx_id \in DOMAIN st.transactions THEN Some(tx_id \in st.disputed) ELSE None

\* Result of a storage write: the storage afterwards and Ok/Err.
StOk(st) == [ok |-> TRUE, st |-> st, err |-> NoError]
StErr(st, err) == [ok |-> FALSE, st |-> st, err |-> err]

store_account_existing_only(st, account) ==
    IF account.client_id \in DOMAIN st.accounts
    THEN StOk([st EXCEPT !.accounts = Insert(@, account.client_id, account)])
    ELSE StOk(st)

store_account(st, account) ==
    StOk([st EXCEPT !.accounts = Insert(@, account.client_id, account)])

store_transaction_keeps_latest(st, transaction) ==
    IF transaction.tx_id \in DOMAIN st.transactions
    THEN StErr([st EXCEPT !.transactions = Insert(@, transaction.tx_id, transaction)],
               TransactionAlreadyExists(transaction.tx_id))
    ELSE StOk([st EXCEPT !.transactions = Insert(@, transaction.tx_id, transaction)])

store_transaction_overwrites(st, transaction) ==
    StOk([st EXCEPT !.transactions = Insert(@, transaction.tx_id, transaction)])

store_transaction(st, transaction) ==
    IF transaction.tx_id \in DOMAIN st.transactions
    THEN StErr(st, TransactionAlreadyExists(transaction.tx_id))
    ELSE StOk([st EXCEPT !.transactions = Insert(@, transaction.tx_id, transaction)])

set_disputed_unchecked(st, tx_id, flag) ==
    IF flag
    THEN StOk([st EXCEPT !.disputed = @ \cup {tx_id}])
    ELSE StOk([st EXCEPT !.disputed = @ \ {tx_id}])

set_disputed_never_clears(st, tx_id, flag) ==
    IF tx_id \notin DOMAIN st.transactions
    THEN StErr(st, TransactionDoesNotExist(tx_id))
    ELSE IF flag
         THEN StOk([st EXCEPT !.disputed = @ \cup {tx_id}])
         ELSE StOk(st)

set_disputed(st, tx_id, flag) ==
    IF tx_id \notin DOMAIN st.transactions
    THEN StErr(st, TransactionDoesNotExist(tx_id))
    ELSE IF flag
         THEN StOk([st EXCEPT !.disputed = @ \cup {tx_id}])
         ELSE StOk([st EXCEPT !.disputed = @ \ {tx_id}])

\* --------------------------------------- service/account_manager.rs
VARIABLES
    env,        \* the callers and the orders they may submit (never changes)
    store,      \* AccountManager.store: the storage behind the RwLock
    rwlock,     \* the RwLock: its writer (0 = none), its readers, poisoned
    pc,         \* where each thread is in process_order
    order,      \* the transaction (order.into()) each thread is processing
    account,    \* the local `account` of the thread inside the write lock
    pre,        \* the storage as it was when the thread's call began
    at_lock,    \* the storage as it was when the thread last took the lock
    chargebacks, \* how many ChargeBack orders found their transaction disputed
    history,    \* what the accepted Dispute/Resolve/ChargeBack orders were
    returned,   \* the call of process_order that returned in the last step
    observed,   \* what a get_account/get_accounts call of the last step returned
    channel,    \* the mpsc channel of orders between the reader and the accountant
    csv         \* the records the reader has read from its file, and where it is

vars ==
    <<env, store, rwlock, pc, order, account, pre, at_lock, chargebacks, history, returned,
      observed, channel, csv>>

NoAccount == [client_id |-> 0, available |-> 0, held |-> 0, total |-> 0, locked |-> FALSE]
NoResult == [ok |-> FALSE, value |-> NoTransaction, err |-> NoError]
Ok(transaction) == [ok |-> TRUE, value |-> transaction, err |-> NoError]
Err(err) == [ok |-> FALSE, value |-> NoTransaction, err |-> err]
NoReturn ==
    [some |-> FALSE, thread |-> 0, order |-> NoTransaction, result |-> NoResult,
     pre |-> EmptyStorage, at_lock |-> EmptyStorage]

NoObservation ==
    [some |-> FALSE, call |-> "none", client_id |-> 0, account |-> None, accounts |-> <<>>]

IsLedgerKind(kind) == kind.type \in {"Deposit", "Withdrawal"}

\* The channel: the orders sent and not yet received, whether every Sender
\* was dropped, whether Accountant::run returned; and what went through it:
\* the orders sent, the orders passed to process_order, how each call ended.
NoChannel ==
    [queue |-> <<>>, closed |-> FALSE, stopped |-> FALSE,
     sent |-> <<>>, passed |-> <<>>, results |-> <<>>]

\* Reader: nothing read yet, Reader::run still in its loop
NoCSV == [rows |-> <<>>, state |-> "reading"]

\* The orders a caller may pass to process_order: any order, or, where the
\* caller is the accountant (env.piped), the one its receiver yields next.
Offered_until_error ==
    IF ~env.piped
    THEN TransactionOrder(env)
    ELSE IF /\ channel.queue # <<>> /\ ~channel.stopped
            /\ \A i \in DOMAIN channel.results : channel.results[i]
         THEN {Head(channel.queue)}
         ELSE {}

Offered ==
    IF ~env.piped
    THEN TransactionOrder(env)
    ELSE IF channel.queue # <<>> /\ ~channel.stopped
         THEN {Head(channel.queue)}
         ELSE {}

\* `for order in self.order_receiver.iter()`: the order leaves the channel
Received(o) ==
    IF env.piped
    THEN [channel EXCEPT !.queue = Tail(@), !.passed = Append(@, o)]
    ELSE channel

\* `if let Err(error) = ...process_order(order) { log::info!(..) }`
Logged(res) ==
    IF env.piped
    THEN [channel EXCEPT !.results = Append(@, res.ok)]
    ELSE channel

\* What the returned orders leave no stored trace of: the tx_ids of the
\* accepted Dispute/Resolve/ChargeBack orders; for each related tx_id how its
\* last dispute was settled ("none", "Resolve" or "ChargeBack"); the tx_ids of
\* the Deposit/Withdrawal orders refused for the lock or for funds and not
\* accepted since; per client the amount its accepted ChargeBacks removed.
NoHistory ==
    [accepted |-> {}, settled |-> [k \in TxIds |-> "none"], rejected |-> {},
     charged |-> [c \in Clients |-> 0]]

\* the amount an accepted ChargeBack order removes, and from which client
ChargedBack(transaction, res) ==
    LET related == get_transaction(store, transaction.kind.arg)
    IN IF /\ res.ok /\ transaction.kind.type = "ChargeBack"
          /\ related.some /\ related.val.kind.type = "Deposit"
       THEN [history.charged EXCEPT ![related.val.client_id] = @ + related.val.kind.arg]
       ELSE history.charged

\* process_order returns `res` for `transaction` (the amounts charged back
\* are always kept, the rest where env.recorded).
Recorded(transaction, res) ==
    IF ~env.recorded
    THEN [history EXCEPT !.charged = ChargedBack(transaction, res)]
    ELSE IF IsLedgerKind(transaction.kind)
    THEN [history EXCEPT
            !.rejected = IF res.ok
                         THEN @ \ {transaction.tx_id}
                         ELSE IF res.err.kind \in {"AccountLocked",
                                                   "InsufficientAvailableFunds"}
                         THEN @ \cup {transaction.tx_id}
                         ELSE @]
    ELSE IF ~res.ok
    THEN history
    ELSE [accepted |-> history.accepted \cup {transaction.tx_id},
          settled |-> IF transaction.kind.type = "Dispute"
                      THEN history.settled
                      ELSE [history.settled EXCEPT ![transaction.kind.arg] =
                                transaction.kind.type],
          rejected |-> history.rejected,
          charged |-> ChargedBack(transaction, res)]

InitWith(e) ==
    /\ env = e
    /\ store = EmptyStorage
    /\ rwlock = [writer |-> 0, readers |-> {}, poisoned |-> FALSE]
    /\ pc = [t \in Threads |-> "idle"]
    /\ order = [t \in Threads |-> NoTransaction]
    /\ account = [t \in Threads |-> NoAccount]
    /\ pre = [t \in Threads |-> EmptyStorage]
    /\ at_lock = [t \in Threads |-> EmptyStorage]
    /\ chargebacks = 0
    /\ history = NoHistory
    /\ returned = NoReturn
    /\ observed = NoObservation
    /\ channel = NoChannel
    /\ csv = NoCSV

\* RwLock::read(): granted when no writer holds the lock.
CanRead == rwlock.writer = 0
\* RwLock::write(): granted when nobody holds the lock.
CanWrite == rwlock.writer = 0 /\ rwlock.readers = {}

\* The guard the thread holds, if any, is dropped.
Unlock(t) == [rwlock EXCEPT !.writer = IF @ = t THEN 0 ELSE @, !.readers = @ \ {t}]

\* The thread leaves process_order with `res`; its guard is dropped.
Leave(t, res) ==
    /\ returned' = [some |-> TRUE, thread |-> t, order |-> order[t], result |-> res,
                    pre |-> pre[t], at_lock |-> at_lock[t]]
    /\ pc' = [pc EXCEPT ![t] = "idle"]
    /\ order' = [order EXCEPT ![t] = NoTransaction]
    /\ pre' = [pre EXCEPT ![t] = EmptyStorage]
    /\ at_lock' = [at_lock EXCEPT ![t] = EmptyStorage]
    /\ account' = [account EXCEPT ![t] = NoAccount]
    /\ history' = Recorded(order[t], res)
    /\ rwlock' = Unlock(t)
    /\ observed' = NoObservation
    /\ channel' = Logged(res)
    /\ UNCHANGED csv

\* An unwrap() of None (or of a poisoned lock): the thread panics; a write
\* guard dropped while panicking poisons the lock.
Panic(t) ==
    /\ returned' = NoReturn
    /\ pc' = [pc EXCEPT ![t] = "panicked"]
    /\ order' = [order EXCEPT ![t] = NoTransaction]
    /\ pre' = [pre EXCEPT ![t] = EmptyStorage]
    /\ at_lock' = [at_lock EXCEPT ![t] = EmptyStorage]
    /\ account' = [account EXCEPT ![t] = NoAccount]
    /\ rwlock' = [Unlock(t) EXCEPT !.poisoned = @ \/ rwlock.writer = t]
    /\ UNCHANGED <<history, channel, csv>>
    /\ observed' = NoObservation

\* The thread goes on to `next` inside process_order.
Goto(t, next, acc) ==
    /\ returned' = NoReturn
    /\ pc' = [pc EXCEPT ![t] = next]
    /\ account' = [account EXCEPT ![t] = acc]
    /\ observed' = NoObservation
    /\ UNCHANGED <<order, pre, at_lock, rwlock, history, channel, csv>>

\* process_order, Deposit/Withdrawal arm: process_deposit/process_withdrawal
\* start with get_disputable_transaction, which takes the read lock.
get_disputable_transaction_lock(t) ==
    /\ t \in env.callers
    /\ pc[t] = "idle"
    /\ CanRead
    /\ \E o \in Offered :
        /\ IsLedgerKind(o.kind)
        /\ IF rwlock.poisoned
           THEN Panic(t)
           ELSE /\ order' = [order EXCEPT ![t] = Transaction(o)]
                /\ pre' = [pre EXCEPT ![t] = store]
                /\ at_lock' = [at_lock EXCEPT ![t] = store]
                /\ pc' = [pc EXCEPT ![t] = "dup_read"]
                /\ rwlock' = [rwlock EXCEPT !.readers = @ \cup {t}]
                /\ returned' = NoReturn
                /\ observed' = NoObservation
                /\ channel' = Received(o)
                /\ UNCHANGED <<account, history, csv>>
    /\ UNCHANGED <<env, store, chargebacks>>

\* get_account(..).unwrap_or(Account::new(client_id))
AccountOrNew(st, client_id) ==
    IF get_account(st, client_id).some
    THEN get_account(st, client_id).val
    ELSE NewAccount(client_id)

duplicate_check_skipped(t) ==
    /\ pc[t] = "dup_read"
    /\ pc' = [pc EXCEPT ![t] = "want_write"]
    /\ rwlock' = Unlock(t)
    /\ at_lock' = [at_lock EXCEPT ![t] = EmptyStorage]
    /\ returned' = NoReturn
    /\ observed' = NoObservation
    /\ UNCHANGED <<env, store, chargebacks, order, account, pre, history, channel, csv>>

process_withdrawal_records_refused(t) ==
    /\ pc[t] = "locked"
    /\ order[t].kind.type = "Withdrawal"
    /\ LET r == withdraw(AccountOrNew(store, order[t].client_id), order[t].kind.arg)
       IN IF r.ok
          THEN Goto(t, "store_account", r.self) /\ UNCHANGED store
          ELSE /\ store' = store_transaction(store, order[t]).st
               /\ Leave(t, Err(r.err))
    /\ UNCHANGED <<env, chargebacks>>

process_withdrawal_stores_first(t) ==
    /\ pc[t] = "locked"
    /\ order[t].kind.type = "Withdrawal"
    /\ LET acc == AccountOrNew(store, order[t].client_id)
           r == withdraw(acc, order[t].kind.arg)
       IN IF r.ok
          THEN Goto(t, "store_account", r.self) /\ UNCHANGED store
          ELSE /\ store' = store_account(store, acc).st
               /\ Leave(t, Err(r.err))
    /\ UNCHANGED <<env, chargebacks>>

duplicate_check_keeps_guard(t) ==
    /\ pc[t] = "dup_read"
    /\ IF get_transaction(store, order[t].tx_id).some
       THEN Leave(t, Err(DuplicateTransactionId(order[t].tx_id)))
       ELSE /\ pc' = [pc EXCEPT ![t] = "want_write"]
            /\ at_lock' = [at_lock EXCEPT ![t] = EmptyStorage]
            /\ returned' = NoReturn
            /\ observed' = NoObservation
            /\ UNCHANGED <<order, account, pre, history, rwlock, channel, csv>>
    /\ UNCHANGED <<env, store, chargebacks>>

\* get_transaction under the read lock, the guard dropped on return; then the
\* `is_some()` test of process_deposit/process_withdrawal.
duplicate_check(t) ==
    /\ pc[t] = "dup_read"
    /\ IF get_transaction(store, order[t].tx_id).some
       THEN Leave(t, Err(DuplicateTransactionId(order[t].tx_id)))
       ELSE /\ pc' = [pc EXCEPT ![t] = "want_write"]
            /\ rwlock' = Unlock(t)
            /\ at_lock' = [at_lock EXCEPT ![t] = EmptyStorage]
            /\ returned' = NoReturn
            /\ observed' = NoObservation
            /\ UNCHANGED <<order, account, pre, history, channel, csv>>
    /\ UNCHANGED <<env, store, chargebacks>>

\* `let mut guard = self.store.write().unwrap()` of process_deposit and
\* process_withdrawal.
lock_write(t) ==
    /\ pc[t] = "want_write"
    /\ CanWrite
    /\ IF rwlock.poisoned
       THEN Panic(t)
       ELSE /\ at_lock' = [at_lock EXCEPT ![t] = store]
            /\ pc' = [pc EXCEPT ![t] = "locked"]
            /\ rwlock' = [rwlock EXCEPT !.writer = t]
            /\ returned' = NoReturn
            /\ observed' = NoObservation
            /\ UNCHANGED <<order, account, pre, history, channel, csv>>
    /\ UNCHANGED <<env, store, chargebacks>>

\* process_order, Dispute/Resolve/ChargeBack arm: the first statement of
\* process_dispute, process_resolve and process_chargeback takes the write lock.
lock_write_related(t) ==
    /\ t \in env.callers
    /\ pc[t] = "idle"
    /\ CanWrite
    /\ \E o \in Offered :
        /\ ~IsLedgerKind(o.kind)
        /\ o.kind.type = "ChargeBack" => chargebacks < MaxChargebacks
        /\ IF rwlock.poisoned
           THEN Panic(t)
           ELSE /\ order' = [order EXCEPT ![t] = Transaction(o)]
                /\ pre' = [pre EXCEPT ![t] = store]
                /\ at_lock' = [at_lock EXCEPT ![t] = store]
                /\ pc' = [pc EXCEPT ![t] = "locked"]
                /\ rwlock' = [rwlock EXCEPT !.writer = t]
                /\ returned' = NoReturn
                /\ observed' = NoObservation
                /\ channel' = Received(o)
                /\ UNCHANGED <<account, history, csv>>
    /\ UNCHANGED <<env, store, chargebacks>>

process_deposit_needs_account(t) ==
    /\ pc[t] = "locked"
    /\ order[t].kind.type = "Deposit"
    /\ IF ~get_account(store, order[t].client_id).some
       THEN Leave(t, Err(RelatedTransactionNotFound(order[t].tx_id)))
       ELSE LET r == deposit(get_account(store, order[t].client_id).val, order[t].kind.arg)
            IN IF r.ok THEN Goto(t, "store_account", r.self) ELSE Leave(t, Err(r.err))
    /\ UNCHANGED <<env, store, chargebacks>>

process_deposit(t) ==
    /\ pc[t] = "locked"
    /\ order[t].kind.type = "Deposit"
    /\ LET r == deposit(AccountOrNew(store, order[t].client_id), order[t].kind.arg)
       IN IF r.ok THEN Goto(t, "store_account", r.self) ELSE Leave(t, Err(r.err))
    /\ UNCHANGED <<env, store, chargebacks>>

process_withdrawal(t) ==
    /\ pc[t] = "locked"
    /\ order[t].kind.type = "Withdrawal"
    /\ LET r == withdraw(AccountOrNew(store, order[t].client_id), order[t].kind.arg)
       IN IF r.ok THEN Goto(t, "store_account", r.self) ELSE Leave(t, Err(r.err))
    /\ UNCHANGED <<env, store, chargebacks>>

\* The manager uses is_disputed as a plain bool: absent counts as not disputed
\* (resolve_a_non_existing_transaction, test_dispute_non_existing_transaction).
IsDisputed_when_stored(st, tx_id) == is_disputed(st, tx_id).some

IsDisputed(st, tx_id) == is_disputed(st, tx_id) = Some(TRUE)

process_dispute_on_order_client(t) ==
    /\ pc[t] = "locked"
    /\ order[t].kind.type = "Dispute"
    /\ LET rel == order[t].kind.arg
           related == get_transaction(store, rel)
       IN IF IsDisputed(store, rel)
          THEN Leave(t, Err(AlreadyDisputedTransaction(rel)))
          ELSE IF ~related.some
          THEN Leave(t, Err(RelatedTransactionNotFound(rel)))
          ELSE IF related.val.kind.type # "Deposit"
          THEN Leave(t, Err(RelatedTransactionNotDisputable(rel)))
          ELSE LET r == dispute(AccountOrNew(store, order[t].client_id),
                                related.val.kind.arg)
               IN IF r.ok THEN Goto(t, "store_account", r.self) ELSE Leave(t, Err(r.err))
    /\ UNCHANGED <<env, store, chargebacks>>

process_dispute_any_kind(t) ==
    /\ pc[t] = "locked"
    /\ order[t].kind.type = "Dispute"
    /\ LET rel == order[t].kind.arg
           related == get_transaction(store, rel)
       IN IF IsDisputed(store, rel)
          THEN Leave(t, Err(AlreadyDisputedTransaction(rel)))
          ELSE IF ~related.some
          THEN Leave(t, Err(RelatedTransactionNotFound(rel)))
          ELSE IF ~get_account(store, related.val.client_id).some
          THEN Panic(t)
          ELSE LET r == dispute(get_account(store, related.val.client_id).val,
                                related.val.kind.arg)
               IN IF r.ok THEN Goto(t, "store_account", r.self) ELSE Leave(t, Err(r.err))
    /\ UNCHANGED <<env, store, chargebacks>>

process_dispute_unwraps_related(t) ==
    /\ pc[t] = "locked"
    /\ order[t].kind.type = "Dispute"
    /\ LET rel == order[t].kind.arg
           related == get_transaction(store, rel)
       IN IF IsDisputed(store, rel)
          THEN Leave(t, Err(AlreadyDisputedTransaction(rel)))
          ELSE IF ~related.some
          THEN Panic(t)
          ELSE IF related.val.kind.type # "Deposit"
          THEN Leave(t, Err(RelatedTransactionNotDisputable(rel)))
          ELSE IF ~get_account(store, related.val.client_id).some
          THEN Panic(t)
          ELSE LET r == dispute(get_account(store, related.val.client_id).val,
                                related.val.kind.arg)
               IN IF r.ok THEN Goto(t, "store_account", r.self) ELSE Leave(t, Err(r.err))
    /\ UNCHANGED <<env, store, chargebacks>>

process_dispute(t) ==
    /\ pc[t] = "locked"
    /\ order[t].kind.type = "Dispute"
    /\ LET rel == order[t].kind.arg
           related == get_transaction(store, rel)
       IN IF IsDisputed(store, rel)
          THEN Leave(t, Err(AlreadyDisputedTransaction(rel)))
          ELSE IF ~related.some
          THEN Leave(t, Err(RelatedTransactionNotFound(rel)))
          ELSE IF related.val.kind.type # "Deposit"
          THEN Leave(t, Err(RelatedTransactionNotDisputable(rel)))
          ELSE IF ~get_account(store, related.val.client_id).some
          THEN Panic(t)
          ELSE LET r == dispute(get_account(store, related.val.client_id).val,
                                related.val.kind.arg)
               IN IF r.ok THEN Goto(t, "store_account", r.self) ELSE Leave(t, Err(r.err))
    /\ UNCHANGED <<env, store, chargebacks>>

process_resolve_on_order_client(t) ==
    /\ pc[t] = "locked"
    /\ order[t].kind.type = "Resolve"
    /\ LET rel == order[t].kind.arg
           related == get_transaction(store, rel)
       IN IF ~IsDisputed(store, rel)
          THEN Leave(t, Err(NonDisputedTransaction(rel)))
          ELSE IF ~related.some
          THEN Panic(t)
          ELSE IF related.val.kind.type # "Deposit"
          THEN Leave(t, Ok(order[t]))
          ELSE LET r == resolve([AccountOrNew(store, order[t].client_id)
                                    EXCEPT !.held = @ + related.val.kind.arg],
                                related.val.kind.arg)
               IN IF r.ok THEN Goto(t, "store_account", r.self) ELSE Leave(t, Err(r.err))
    /\ UNCHANGED <<env, store, chargebacks>>

\* process_resolve: the related transaction must be disputed; a Deposit has
\* its amount released by Account::resolve.
process_resolve(t) ==
    /\ pc[t] = "locked"
    /\ order[t].kind.type = "Resolve"
    /\ LET rel == order[t].kind.arg
           related == get_transaction(store, rel)
       IN IF ~IsDisputed(store, rel)
          THEN Leave(t, Err(NonDisputedTransaction(rel)))
          ELSE IF ~related.some
          THEN Panic(t)
          ELSE IF related.val.kind.type # "Deposit"
          THEN Leave(t, Ok(order[t]))
          ELSE IF ~get_account(store, related.val.client_id).some
          THEN Panic(t)
          ELSE LET r == resolve(get_account(store, related.val.client_id).val,
                           related.val.kind.arg)
               IN IF r.ok THEN Goto(t, "store_account", r.self) ELSE Leave(t, Err(r.err))
    /\ UNCHANGED <<env, store, chargebacks>>

process_chargeback(t) ==
    /\ pc[t] = "locked"
    /\ order[t].kind.type = "ChargeBack"
    /\ LET rel == order[t].kind.arg
           related == get_transaction(store, rel)
       IN IF ~IsDisputed(store, rel)
          THEN Leave(t, Err(NonDisputedTransaction(rel)))
          ELSE IF ~related.some
          THEN Panic(t)
          ELSE IF related.val.kind.type # "Deposit"
          THEN Leave(t, Ok(order[t]))
          ELSE IF ~get_account(store, related.val.client_id).some
          THEN Panic(t)
          ELSE LET r == chargeback(get_account(store, related.val.client_id).val,
                           related.val.kind.arg)
               IN IF r.ok THEN Goto(t, "store_account", r.self) ELSE Leave(t, Err(r.err))
    /\ chargebacks' = IF IsDisputed(store, order[t].kind.arg)
                      THEN chargebacks + 1
                      ELSE chargebacks
    /\ UNCHANGED <<env, store>>

StoreAccount_then_transaction(t) ==
    /\ pc[t] = "store_account"
    /\ LET r == store_account(store, account[t])
       IN /\ store' = r.st
          /\ IF r.ok
             THEN Goto(t, "store_transaction", NoAccount)
             ELSE Leave(t, Err(r.err))
    /\ UNCHANGED <<env, chargebacks>>

\* guard.store_account(account)?
StoreAccount(t) ==
    /\ pc[t] = "store_account"
    /\ LET r == store_account(store, account[t])
       IN /\ store' = r.st
          /\ IF r.ok
             THEN Goto(t, IF IsLedgerKind(order[t].kind)
                          THEN "store_transaction"
                          ELSE "set_disputed", NoAccount)
             ELSE Leave(t, Err(r.err))
    /\ UNCHANGED <<env, chargebacks>>

\* guard.store_transaction(transaction), the value process_deposit and
\* process_withdrawal return.
StoreTransaction(t) ==
    /\ pc[t] = "store_transaction"
    /\ LET r == store_transaction(store, order[t])
       IN /\ store' = r.st
          /\ Leave(t, IF r.ok THEN Ok(order[t]) ELSE Err(r.err))
    /\ UNCHANGED <<env, chargebacks>>

\* guard.set_disputed(related_transaction_id, ..)?; Ok(transaction)
SetDisputed(t) ==
    /\ pc[t] = "set_disputed"
    /\ LET r == set_disputed(store, order[t].kind.arg, order[t].kind.type = "Dispute")
       IN /\ store' = r.st
          /\ Leave(t, IF r.ok THEN Ok(order[t]) ELSE Err(r.err))
    /\ UNCHANGED <<env, chargebacks>>

process_order(t) ==
    \/ get_disputable_transaction_lock(t)
    \/ duplicate_check(t)
    \/ lock_write(t)
    \/ lock_write_related(t)
    \/ process_deposit(t)
    \/ process_withdrawal(t)
    \/ process_dispute(t)
    \/ process_resolve(t)
    \/ process_chargeback(t)
    \/ StoreAccount(t)
    \/ StoreTransaction(t)
    \/ SetDisputed(t)

Next == \E t \in Threads : process_order(t)

\* Several threads share the manager (Arc<AccountManager>).
Init == InitWith(SharedEnv)
Spec == Init /\ [][Next]_vars

\* One caller processes the orders one at a time.
InitSeq == InitWith(SingleEnv)
SpecSeq == InitSeq /\ [][Next]_vars

\* One caller again, the accepted orders recorded in `history`.
InitHistory == InitWith(HistoryEnv)
SpecHistory == InitHistory /\ [][Next]_vars

\* The steps of a call that wait for nothing: once in process_order the thread
\* runs them as soon as it is scheduled.
Running(t) ==
    \/ duplicate_check(t)
    \/ process_deposit(t)
    \/ process_withdrawal(t)
    \/ process_dispute(t)
    \/ process_resolve(t)
    \/ process_chargeback(t)
    \/ StoreAccount(t)
    \/ StoreTransaction(t)
    \/ SetDisputed(t)

\* Every thread inside process_order keeps running, and the lock is fair: a
\* thread waiting in write() that could take the lock again and again does
\* take it. Whether a thread calls process_order at all is left open.
Fairness == \A t \in Threads : WF_vars(Running(t)) /\ SF_vars(lock_write(t))
SpecFair == Init /\ [][Next]_vars /\ Fairness

\* A caller of get_account/get_accounts that finds the lock poisoned panics.
ObservedPanic ==
    [some |-> FALSE, call |-> "panicked", client_id |-> 0, account |-> None,
     accounts |-> <<>>]

\* AccountManager::get_account: self.store.read().unwrap().get_account(..),
\* the read guard dropped at the end of the statement.
AccountManager_get_account_without_lock ==
    /\ \E c \in env.clients :
         observed' = [some |-> TRUE, call |-> "get_account", client_id |-> c,
                      account |-> get_account(store, c), accounts |-> <<>>]
    /\ returned' = NoReturn
    /\ UNCHANGED <<channel, csv, env, store, rwlock, pc, order, account, pre, at_lock, chargebacks,
                   history>>

AccountManager_get_account ==
    /\ CanRead
    /\ \E c \in env.clients :
         observed' = IF rwlock.poisoned
                     THEN ObservedPanic
                     ELSE [some |-> TRUE, call |-> "get_account", client_id |-> c,
                           account |-> get_account(store, c), accounts |-> <<>>]
    /\ returned' = NoReturn
    /\ UNCHANGED <<channel, csv, env, store, rwlock, pc, order, account, pre, at_lock, chargebacks,
                   history>>

AccountManager_get_accounts_unlocked_only ==
    /\ CanRead
    /\ \E list \in get_accounts(store) :
         observed' = IF rwlock.poisoned
                     THEN ObservedPanic
                     ELSE [some |-> TRUE, call |-> "get_accounts", client_id |-> 0,
                           account |-> None,
                           accounts |-> SelectSeq(list, LAMBDA a : ~a.locked)]
    /\ returned' = NoReturn
    /\ UNCHANGED <<channel, csv, env, store, rwlock, pc, order, account, pre, at_lock, chargebacks,
                   history>>

\* AccountManager::get_accounts: self.store.read().unwrap().get_accounts()
AccountManager_get_accounts ==
    /\ CanRead
    /\ \E list \in get_accounts(store) :
         observed' = IF rwlock.poisoned
                     THEN ObservedPanic
                     ELSE [some |-> TRUE, call |-> "get_accounts", client_id |-> 0,
                           account |-> None, accounts |-> list]
    /\ returned' = NoReturn
    /\ UNCHANGED <<channel, csv, env, store, rwlock, pc, order, account, pre, at_lock, chargebacks,
                   history>>

\* One caller of process_order and, beside it, readers calling get_account
\* and get_accounts (the exporter, or any holder of the Arc<AccountManager>).
NextRead ==
    \/ Next
    \/ AccountManager_get_account
    \/ AccountManager_get_accounts

SpecRead == InitSeq /\ [][NextRead]_vars

\* The same reader beside several threads that process orders.
SpecReadShared == Init /\ [][NextRead]_vars

\* The storage used on its own, as its unit tests use it: any account, any
\* transaction and any flag may be passed to it, in any order.
StorageEnv ==
    [callers |-> {}, clients |-> 1..HistoryClients, tx_ids |-> TxIds,
     amounts |-> 1..HistoryAmount, recorded |-> FALSE, piped |-> FALSE]

\* what a call of a storage method was given and returned
StorageCall(call, arg, flag, r) ==
    [some |-> TRUE, call |-> call, arg |-> arg, flag |-> flag, ok |-> r.ok, err |-> r.err,
     before |-> store]

Storage_store_account ==
    /\ \E c \in env.clients, a \in {0} \cup env.amounts :
         LET acc == [NewAccount(c) EXCEPT !.available = a, !.total = a]
             r == store_account(store, acc)
         IN /\ store' = r.st
            /\ observed' = StorageCall("store_account", acc, FALSE, r)
    /\ UNCHANGED <<channel, csv, env, rwlock, pc, order, account, pre, at_lock, chargebacks,
                   history, returned>>

Storage_store_transaction ==
    /\ \E o \in TransactionOrder(env) :
         LET r == store_transaction(store, Transaction(o))
         IN /\ store' = r.st
            /\ observed' = StorageCall("store_transaction", Transaction(o), FALSE, r)
    /\ UNCHANGED <<channel, csv, env, rwlock, pc, order, account, pre, at_lock, chargebacks,
                   history, returned>>

Storage_set_disputed ==
    /\ \E k \in env.tx_ids, flag \in BOOLEAN :
         LET r == set_disputed(store, k, flag)
         IN /\ store' = r.st
            /\ observed' = StorageCall("set_disputed", k, flag, r)
    /\ UNCHANGED <<channel, csv, env, rwlock, pc, order, account, pre, at_lock, chargebacks,
                   history, returned>>

NextStorage ==
    \/ Storage_store_account
    \/ Storage_store_transaction
    \/ Storage_set_disputed

InitStorage == InitWith(StorageEnv)
SpecStorage == InitStorage /\ [][NextStorage]_vars

\* ------------------------------------------- actor/accountant.rs, reader.rs
\* The accountant thread is the only caller of process_order; the orders come
\* through the channel from the reader (test_run, Application::run).
PipeEnv ==
    [callers |-> SingleCaller, clients |-> 1..HistoryClients, tx_ids |-> 1..PipeTx,
     amounts |-> 1..HistoryAmount, recorded |-> FALSE, piped |-> TRUE]

\* self.order_sender.send(order)? of Reader::run (tx.send(..) of test_run)
Reader_send ==
    /\ ~channel.closed
    /\ Len(channel.sent) < PipeSent
    /\ \E o \in TransactionOrder(env) :
         channel' = [channel EXCEPT !.queue = Append(@, o), !.sent = Append(@, o)]
    /\ returned' = NoReturn
    /\ observed' = NoObservation
    /\ UNCHANGED <<csv, env, store, rwlock, pc, order, account, pre, at_lock, chargebacks,
                   history>>

\* Reader::run returns and its Sender is dropped (drop(tx) of test_run)
Reader_drop ==
    /\ ~channel.closed
    /\ channel' = [channel EXCEPT !.closed = TRUE]
    /\ returned' = NoReturn
    /\ observed' = NoObservation
    /\ UNCHANGED <<csv, env, store, rwlock, pc, order, account, pre, at_lock, chargebacks,
                   history>>

Accountant_run_returns_when_empty ==
    /\ ~channel.stopped
    /\ \A t \in env.callers : pc[t] = "idle"
    /\ channel.queue = <<>>
    /\ channel' = [channel EXCEPT !.stopped = TRUE]
    /\ returned' = NoReturn
    /\ observed' = NoObservation
    /\ UNCHANGED <<csv, env, store, rwlock, pc, order, account, pre, at_lock, chargebacks,
                   history>>

\* order_receiver.iter() ends: the channel is empty and every Sender was
\* dropped; the for loop is left and Accountant::run returns.
Accountant_run_returns ==
    /\ ~channel.stopped
    /\ \A t \in env.callers : pc[t] = "idle"
    /\ channel.queue = <<>>
    /\ channel.closed
    /\ channel' = [channel EXCEPT !.stopped = TRUE]
    /\ returned' = NoReturn
    /\ observed' = NoObservation
    /\ UNCHANGED <<csv, env, store, rwlock, pc, order, account, pre, at_lock, chargebacks,
                   history>>

NextAccountant ==
    \/ Next
    \/ Reader_send
    \/ Reader_drop
    \/ Accountant_run_returns

\* The accountant thread is scheduled: it goes on with the loop whenever an
\* order is in the channel, and leaves it when iter() ends. The reader may
\* send and drop its Sender whenever it likes, or never.
AccountantFairness ==
    /\ \A t \in Threads : WF_vars(process_order(t))
    /\ WF_vars(Accountant_run_returns)

InitAccountant == InitWith(PipeEnv)
SpecAccountant == InitAccountant /\ [][NextAccountant]_vars /\ AccountantFairness

\* ------------------------------------------------------ actor/reader.rs
\* What csv_reader.deserialize() yields for a line: an error, or an entity.
NoEntity == [type |-> "", client |-> 0, tx |-> 0, amount |-> [some |-> FALSE]]
CSVRecords ==
    {[ok |-> FALSE, entity |-> NoEntity]}
        \cup {[ok |-> TRUE, entity |-> e] : e \in CSVTransactionEntity}

\* One turn of the loop of Reader::run: the next record is read; a record
\* that fails to deserialize or to convert is logged and skipped, the order
\* of any other is sent (`?`: the reader returns the error of a send that
\* finds the Receiver gone, dropping its Sender).
Reader_run_record ==
    /\ csv.state = "reading"
    /\ Len(csv.rows) < MaxRows
    /\ \E rec \in CSVRecords :
         LET read == Append(csv.rows, rec)
             r == try_from(rec.entity)
         IN IF ~rec.ok \/ ~r.ok
            THEN /\ csv' = [csv EXCEPT !.rows = read]
                 /\ UNCHANGED channel
            ELSE IF channel.stopped
            THEN /\ csv' = [rows |-> read, state |-> "failed"]
                 /\ channel' = [channel EXCEPT !.closed = TRUE]
            ELSE /\ csv' = [csv EXCEPT !.rows = read]
                 /\ channel' = [channel EXCEPT !.queue = Append(@, r.order),
                                               !.sent = Append(@, r.order)]
    /\ returned' = NoReturn
    /\ observed' = NoObservation
    /\ UNCHANGED <<env, store, rwlock, pc, order, account, pre, at_lock, chargebacks, history>>

\* The file ends: Reader::run returns Ok(()) and its Sender is dropped.
Reader_run_returns ==
    /\ csv.state = "reading"
    /\ csv' = [csv EXCEPT !.state = "done"]
    /\ channel' = [channel EXCEPT !.closed = TRUE]
    /\ returned' = NoReturn
    /\ observed' = NoObservation
    /\ UNCHANGED <<env, store, rwlock, pc, order, account, pre, at_lock, chargebacks, history>>

NextReader ==
    \/ Reader_run_record
    \/ Reader_run_returns

SpecReader == InitAccountant /\ [][NextReader]_vars

\* ------------------------------------------- main.rs, actor/exporter.rs
AccountExporter_run_after_reader ==
    /\ observed.call # "export"
    /\ channel.closed
    /\ CanRead
    /\ \E list \in get_accounts(store) :
         observed' = IF rwlock.poisoned
                     THEN ObservedPanic
                     ELSE [some |-> TRUE, call |-> "export", client_id |-> 0,
                           account |-> None, accounts |-> list]
    /\ returned' = NoReturn
    /\ UNCHANGED <<channel, csv, env, store, rwlock, pc, order, account, pre, at_lock, chargebacks,
                   history>>

\* Application::run: both threads are joined (`.and(..)` evaluates its
\* argument, so account_handler is joined whatever the reader returned), then
\* AccountExporter::run takes get_accounts() and writes it out.
AccountExporter_run ==
    /\ observed.call # "export"
    /\ channel.closed
    /\ channel.stopped
    /\ CanRead
    /\ \E list \in get_accounts(store) :
         observed' = IF rwlock.poisoned
                     THEN ObservedPanic
                     ELSE [some |-> TRUE, call |-> "export", client_id |-> 0,
                           account |-> None, accounts |-> list]
    /\ returned' = NoReturn
    /\ UNCHANGED <<channel, csv, env, store, rwlock, pc, order, account, pre, at_lock, chargebacks,
                   history>>

NextPipeline ==
    \/ NextAccountant
    \/ AccountExporter_run

SpecPipeline == InitAccountant /\ [][NextPipeline]_vars

\* ------------------------------------------------------------ claims
\* The call that has just returned: its amount (Deposit/Withdrawal) or its
\* related tx_id (Dispute/Resolve/ChargeBack), its client and its tx_id.
RetAmount == returned.order.kind.arg
RetRelated == returned.order.kind.arg
RetClient == returned.order.client_id
RetTx == returned.order.tx_id

\* C1: in every reachable state every stored account has
\* total = available + held.
C1_TotalIsAvailablePlusHeld ==
    \A c \in DOMAIN store.accounts :
        store.accounts[c].total = store.accounts[c].available + store.accounts[c].held

C1_Witness ==
    \E c \in DOMAIN store.accounts :
        /\ store.accounts[c].held > 0
        /\ store.accounts[c].available < 0
        /\ returned.some /\ ~returned.result.ok

\* C2: locked is monotonic: no step takes a stored account from locked to
\* unlocked (or removes it).
C2_LockedIsMonotonic ==
    [][\A c \in DOMAIN store.accounts :
          store.accounts[c].locked =>
              c \in DOMAIN store'.accounts /\ store'.accounts[c].locked]_vars

C2_Witness ==
    /\ returned.some /\ returned.result.ok
    /\ returned.order.kind.type = "ChargeBack"
    /\ \E c \in DOMAIN returned.pre.accounts :
        /\ returned.pre.accounts[c].locked
        /\ returned.pre.accounts[c] # store.accounts[c]
        /\ store.accounts[c].locked

\* C3: under concurrent callers the transaction map keeps one transaction per
\* TxId: a stored transaction never changes or disappears, it is stored under
\* its own tx_id, and store_transaction with a tx_id already present fails.
C3_StoredTransactionIsUnique ==
    [][/\ \A k \in DOMAIN store.transactions :
            /\ store.transactions[k].tx_id = k
            /\ k \in DOMAIN store'.transactions
            /\ store'.transactions[k] = store.transactions[k]
       /\ \A t \in Threads :
            (/\ pc[t] = "store_transaction"
             /\ pc'[t] # "store_transaction"
             /\ order[t].tx_id \in DOMAIN store.transactions)
            => /\ returned'.some /\ returned'.thread = t
               /\ returned'.result = Err(TransactionAlreadyExists(order[t].tx_id))]_vars

C3_Witness ==
    /\ returned.some
    /\ returned.result = Err(TransactionAlreadyExists(RetTx))
    /\ RetTx \in DOMAIN store.transactions
    /\ store.transactions[RetTx].kind # returned.order.kind

\* C4: a Deposit or Withdrawal whose tx_id is already stored fails with
\* DuplicateTransactionId(tx_id) and leaves every account as it was (none
\* changed, none created).
C4_DuplicateIsRejected ==
    (/\ returned.some
     /\ IsLedgerKind(returned.order.kind)
     /\ RetTx \in DOMAIN returned.pre.transactions)
    => /\ returned.result = Err(DuplicateTransactionId(RetTx))
       /\ store.accounts = returned.pre.accounts

C4_Witness ==
    /\ returned.some
    /\ returned.order.kind.type = "Deposit"
    /\ returned.result = Err(DuplicateTransactionId(RetTx))
    /\ returned.pre.transactions[RetTx].client_id # RetClient
    /\ RetClient \notin DOMAIN store.accounts

\* C5: with a single caller, a call of process_order that returns an error
\* leaves the storage (accounts, transactions, disputed flags) as it was when
\* the call began.
C5_FailedOrderChangesNothing ==
    (returned.some /\ ~returned.result.ok) => store = returned.pre

C5_Witness ==
    /\ returned.some
    /\ returned.order.kind.type = "Withdrawal"
    /\ returned.result.err.kind = "InsufficientAvailableFunds"
    /\ RetClient \in DOMAIN store.accounts
    /\ store.accounts[RetClient].held > 0

\* C6 (as claimed): a Deposit/Withdrawal is validated and persisted under one
\* lock acquisition, so the storage it writes to is the storage its duplicate
\* check read.
C6_ValidatedUnderTheWriteLock ==
    (returned.some /\ IsLedgerKind(returned.order.kind))
    => returned.at_lock = returned.pre

\* C7 (as claimed): a Deposit/Withdrawal whose transaction was not stored has
\* changed no stored account and created none.
C7_NoDeltaWithoutTransaction ==
    (returned.some /\ IsLedgerKind(returned.order.kind) /\ ~returned.result.ok)
    => store.accounts = returned.at_lock.accounts

\* C8: a Deposit with a fresh tx_id for a client whose account is absent or
\* unlocked succeeds: available grows by the amount, held and locked are
\* unchanged, the transaction is stored under its tx_id and returned.
C8_DepositApplies ==
    (/\ returned.some
     /\ returned.order.kind.type = "Deposit"
     /\ RetTx \notin DOMAIN returned.pre.transactions
     /\ ~AccountOrNew(returned.pre, RetClient).locked)
    => /\ returned.result = Ok(returned.order)
       /\ get_transaction(store, RetTx) = Some(returned.order)
       /\ RetClient \in DOMAIN store.accounts
       /\ store.accounts[RetClient].available
              = AccountOrNew(returned.pre, RetClient).available + RetAmount
       /\ store.accounts[RetClient].held = AccountOrNew(returned.pre, RetClient).held
       /\ store.accounts[RetClient].locked = FALSE

C8_Witness ==
    /\ returned.some
    /\ returned.order.kind.type = "Deposit"
    /\ returned.result.ok
    /\ RetClient \in DOMAIN returned.pre.accounts
    /\ returned.pre.accounts[RetClient].held > 0
    /\ store.accounts[RetClient].held = returned.pre.accounts[RetClient].held

C10_DisputeMovesFunds ==
    (/\ returned.some
     /\ returned.order.kind.type = "Dispute"
     /\ RetRelated \in DOMAIN returned.pre.transactions
     /\ returned.pre.transactions[RetRelated].kind.type = "Deposit"
     /\ RetRelated \notin returned.pre.disputed)
    => LET deposited == returned.pre.transactions[RetRelated]
           before == returned.pre.accounts[deposited.client_id]
           after == store.accounts[deposited.client_id]
       IN /\ returned.result = Ok(returned.order)
          /\ after.available = before.available - deposited.kind.arg
          /\ after.held = before.held + deposited.kind.arg
          /\ after.total = before.total
          /\ after.locked = before.locked
          /\ RetRelated \in store.disputed

C10_Witness ==
    /\ returned.some
    /\ returned.order.kind.type = "Dispute"
    /\ returned.result.ok
    /\ LET deposited == store.transactions[RetRelated]
       IN /\ returned.pre.accounts[deposited.client_id].available < deposited.kind.arg
          /\ store.accounts[deposited.client_id].available < 0

\* C11: a Dispute, Resolve or ChargeBack order acts on the account of the
\* client of the related stored transaction: every other account, the one of
\* the order's own client_id included, is neither created nor modified.
C11_RelatedClientIsCharged ==
    (returned.some /\ ~IsLedgerKind(returned.order.kind))
    => /\ DOMAIN store.accounts = DOMAIN returned.pre.accounts
       /\ \A c \in DOMAIN store.accounts :
            store.accounts[c] # returned.pre.accounts[c]
            => /\ RetRelated \in DOMAIN returned.pre.transactions
               /\ returned.pre.transactions[RetRelated].client_id = c

C11_Witness ==
    /\ returned.some /\ returned.result.ok
    /\ ~IsLedgerKind(returned.order.kind)
    /\ RetClient \notin DOMAIN store.accounts
    /\ LET depositor == returned.pre.transactions[RetRelated].client_id
       IN /\ depositor # RetClient
          /\ store.accounts[depositor] # returned.pre.accounts[depositor]

\* C12: only a Deposit can be disputed: in every reachable state, whatever
\* the interleaving, each tx_id flagged as disputed is a stored Deposit; and a
\* Dispute whose related tx_id is a stored Withdrawal fails with
\* RelatedTransactionNotDisputable(tx_id), no account and no flag changed.
C12_OnlyDepositsAreDisputed ==
    /\ \A k \in store.disputed :
         /\ k \in DOMAIN store.transactions
         /\ store.transactions[k].kind.type = "Deposit"
    /\ (/\ returned.some
        /\ returned.order.kind.type = "Dispute"
        /\ RetRelated \in DOMAIN returned.pre.transactions
        /\ returned.pre.transactions[RetRelated].kind.type = "Withdrawal")
       => /\ returned.result = Err(RelatedTransactionNotDisputable(RetRelated))
          /\ store.accounts = returned.pre.accounts
          /\ store.disputed = returned.pre.disputed

C12_Witness ==
    /\ returned.some
    /\ returned.order.kind.type = "Dispute"
    /\ returned.result = Err(RelatedTransactionNotDisputable(RetRelated))
    /\ store.transactions[RetRelated].kind.type = "Withdrawal"
    /\ store.disputed # {}

\* C13 (as claimed): a Dispute whose related tx_id is the tx_id of an earlier
\* accepted Dispute, Resolve or ChargeBack order, and of no stored Deposit or
\* Withdrawal, fails with RelatedTransactionNotDisputable(tx_id).
C13_DisputeOfADisputeIsNotDisputable ==
    (/\ returned.some
     /\ returned.order.kind.type = "Dispute"
     /\ RetRelated \in history.accepted
     /\ RetRelated \notin DOMAIN returned.pre.transactions)
    => returned.result = Err(RelatedTransactionNotDisputable(RetRelated))

\* C14: a Dispute whose related tx_id is not a stored transaction returns
\* RelatedTransactionNotFound(tx_id) and leaves the manager as it was when the
\* call began: same storage, lock free and not poisoned, caller idle again, so
\* the orders that follow are processed as if the dispute had not been sent.
C14_DanglingDisputeChangesNothing ==
    [][\A t \in Threads :
          (/\ pc[t] = "locked"
           /\ order[t].kind.type = "Dispute"
           /\ order[t].kind.arg \notin DOMAIN store.transactions
           /\ pc'[t] # pc[t])
          => /\ returned'.some /\ returned'.thread = t
             /\ returned'.result = Err(RelatedTransactionNotFound(order[t].kind.arg))
             /\ store' = pre[t]
             /\ rwlock' = [writer |-> 0, readers |-> {}, poisoned |-> FALSE]
             /\ pc'[t] = "idle"]_vars

C14_Witness ==
    /\ returned.some
    /\ returned.order.kind.type = "Dispute"
    /\ returned.result = Err(RelatedTransactionNotFound(RetRelated))
    /\ RetRelated \notin DOMAIN store.transactions
    /\ store.disputed # {}
    /\ \E c \in DOMAIN store.accounts : store.accounts[c].locked

\* C15: a Dispute of a tx_id that is disputed when the order arrives fails
\* with AlreadyDisputedTransaction(tx_id) and moves no funds a second time:
\* the accounts and the flags are as before.
C15_SecondDisputeIsRejected ==
    (/\ returned.some
     /\ returned.order.kind.type = "Dispute"
     /\ RetRelated \in returned.pre.disputed)
    => /\ returned.result = Err(AlreadyDisputedTransaction(RetRelated))
       /\ store.accounts = returned.pre.accounts
       /\ store.disputed = returned.pre.disputed

C15_Witness ==
    /\ returned.some
    /\ returned.order.kind.type = "Dispute"
    /\ returned.result = Err(AlreadyDisputedTransaction(RetRelated))
    /\ LET deposited == store.transactions[RetRelated]
       IN /\ store.accounts[deposited.client_id].held = deposited.kind.arg
          /\ store.accounts[deposited.client_id].available > 0

\* C16: a Resolve or ChargeBack whose related tx_id is not disputed when the
\* order arrives (stored and undisputed, or not stored at all) fails with
\* NonDisputedTransaction(tx_id) and changes nothing: no balance, no flag, and
\* no account gets locked.
C16_SettlingNeedsADispute ==
    (/\ returned.some
     /\ returned.order.kind.type \in {"Resolve", "ChargeBack"}
     /\ RetRelated \notin returned.pre.disputed)
    => /\ returned.result = Err(NonDisputedTransaction(RetRelated))
       /\ store = returned.pre

C16_Witness ==
    /\ returned.some
    /\ returned.order.kind.type = "ChargeBack"
    /\ returned.result = Err(NonDisputedTransaction(RetRelated))
    /\ RetRelated \in DOMAIN store.transactions
    /\ LET deposited == store.transactions[RetRelated]
       IN /\ store.accounts[deposited.client_id].held > 0
          /\ ~store.accounts[deposited.client_id].locked

\* the other case of C16: the related transaction is not stored at all
C16_WitnessNotStored ==
    /\ returned.some
    /\ returned.order.kind.type = "Resolve"
    /\ returned.result = Err(NonDisputedTransaction(RetRelated))
    /\ RetRelated \notin DOMAIN store.transactions
    /\ store.disputed # {}

\* Every account value a single caller's orders can store (C1: its total is
\* available + held), and more: a balance is moved by at most MaxAmount per
\* stored Deposit and per re-dispute of a charged-back Deposit.
MaxBalance == (NumTx + MaxChargebacks + 1) * MaxAmount
Balances == (0 - MaxBalance)..MaxBalance
AccountValues ==
    {X \in [client_id : Clients, available : Balances, held : Balances,
            total : Balances, locked : BOOLEAN] : X.total = X.available + X.held}

\* C17: Dispute(t) then Resolve(t) is a round trip. When Resolve(t) arrives
\* and the depositor's account is what Account::dispute made of some account
\* X, the Resolve succeeds, the stored account is X again (available, held,
\* total, locked) and t is not disputed, as before the Dispute.
C17_DisputeResolveRoundTrip ==
    (/\ returned.some
     /\ returned.order.kind.type = "Resolve"
     /\ RetRelated \in returned.pre.disputed)
    => LET deposited == returned.pre.transactions[RetRelated]
           c == deposited.client_id
           WasBefore(X) ==
               /\ dispute(X, deposited.kind.arg).ok
               /\ dispute(X, deposited.kind.arg).self = returned.pre.accounts[c]
       IN /\ returned.result = Ok(returned.order)
          /\ \E X \in AccountValues : WasBefore(X)
          /\ \A X \in AccountValues : WasBefore(X) => store.accounts[c] = X
          /\ RetRelated \notin store.disputed
          /\ store.disputed \ {RetRelated} = returned.pre.disputed \ {RetRelated}

C17_Witness ==
    /\ returned.some
    /\ returned.order.kind.type = "Resolve"
    /\ returned.result.ok
    /\ LET deposited == store.transactions[RetRelated]
           c == deposited.client_id
       IN /\ returned.pre.accounts[c].available < 0
          /\ returned.pre.accounts[c].held = deposited.kind.arg
          /\ store.accounts[c].available > 0
          /\ store.accounts[c].held = 0

\* The effect of a ChargeBack(t) arriving while the Deposit t is disputed:
\* held and total decrease by its amount, available is unchanged, the account
\* is locked and the flag of t is cleared.
ChargebackApplies ==
    (/\ returned.some
     /\ returned.order.kind.type = "ChargeBack"
     /\ RetRelated \in returned.pre.disputed)
    => LET deposited == returned.pre.transactions[RetRelated]
           before == returned.pre.accounts[deposited.client_id]
           after == store.accounts[deposited.client_id]
       IN /\ returned.result = Ok(returned.order)
          /\ after.held = before.held - deposited.kind.arg
          /\ after.available = before.available
          /\ after.total = before.total - deposited.kind.arg
          /\ after.locked
          /\ RetRelated \notin store.disputed

\* a Deposit or Withdrawal arrives for a client whose account is locked
OnLockedAccount ==
    /\ returned.some
    /\ IsLedgerKind(returned.order.kind)
    /\ RetClient \in DOMAIN returned.pre.accounts
    /\ returned.pre.accounts[RetClient].locked

\* C18 (as claimed): a successful ChargeBack has the effect above, and from
\* then on every Deposit and every Withdrawal for that client fails with
\* AccountLocked.
C18_EveryOrderFailsAccountLocked ==
    /\ ChargebackApplies
    /\ OnLockedAccount => returned.result = Err(AccountLocked)

\* C18 (amended): a successful ChargeBack has the effect above, and from then
\* on every Deposit and every Withdrawal for that client fails and changes
\* nothing: with AccountLocked when its tx_id is fresh, with
\* DuplicateTransactionId(tx_id) when its tx_id is already stored.
C18_ChargebackLocks ==
    /\ ChargebackApplies
    /\ OnLockedAccount
       => /\ returned.result =
                IF RetTx \in DOMAIN returned.pre.transactions
                THEN Err(DuplicateTransactionId(RetTx))
                ELSE Err(AccountLocked)
          /\ store = returned.pre

C18_Witness ==
    /\ OnLockedAccount
    /\ returned.order.kind.type = "Deposit"
    /\ RetTx \notin DOMAIN store.transactions
    /\ returned.result = Err(AccountLocked)
    /\ store.accounts[RetClient].held = 0
    /\ store.accounts[RetClient].total = 0
    /\ store.disputed = {}

\* C19 (as claimed): charged-back is terminal: a tx_id whose dispute was
\* settled by an accepted ChargeBack is never disputed again.
C19_ChargedBackIsTerminal ==
    \A k \in TxIds : history.settled[k] = "ChargeBack" => k \notin store.disputed

\* C20: a resolved transaction can be disputed again: an accepted Resolve(t)
\* leaves t undisputed, and a Dispute(t) arriving after it (t undisputed, its
\* last dispute settled by a Resolve) succeeds and again moves the deposit's
\* amount from available to held.
C20_ResolvedCanBeDisputedAgain ==
    /\ (/\ returned.some /\ returned.result.ok
        /\ returned.order.kind.type = "Resolve")
       => RetRelated \notin store.disputed
    /\ (/\ returned.some
        /\ returned.order.kind.type = "Dispute"
        /\ history.settled[RetRelated] = "Resolve"
        /\ RetRelated \notin returned.pre.disputed)
       => LET deposited == returned.pre.transactions[RetRelated]
              before == returned.pre.accounts[deposited.client_id]
              after == store.accounts[deposited.client_id]
          IN /\ returned.result = Ok(returned.order)
             /\ after.available = before.available - deposited.kind.arg
             /\ after.held = before.held + deposited.kind.arg
             /\ RetRelated \in store.disputed

C20_Witness ==
    /\ returned.some /\ returned.result.ok
    /\ returned.order.kind.type = "Dispute"
    /\ history.settled[RetRelated] = "Resolve"
    /\ RetRelated \in store.disputed
    /\ LET deposited == store.transactions[RetRelated]
       IN /\ store.accounts[deposited.client_id].held = deposited.kind.arg
          /\ ~store.accounts[deposited.client_id].locked

\* A Dispute, Resolve or ChargeBack that is due to succeed (Dispute of an
\* undisputed Deposit, Resolve/ChargeBack of a disputed one) arrives while the
\* depositor's account is locked: it succeeds and changes the balances.
LockedAccountIsStillSettled ==
    (/\ returned.some
     /\ ~IsLedgerKind(returned.order.kind)
     /\ RetRelated \in DOMAIN returned.pre.transactions
     /\ returned.pre.transactions[RetRelated].kind.type = "Deposit"
     /\ returned.pre.accounts[returned.pre.transactions[RetRelated].client_id].locked
     /\ (returned.order.kind.type = "Dispute") = (RetRelated \notin returned.pre.disputed))
    => LET c == returned.pre.transactions[RetRelated].client_id
       IN /\ returned.result = Ok(returned.order)
          /\ store.accounts[c].held # returned.pre.accounts[c].held
          /\ store.accounts[c].locked

\* C21 (as claimed): the lock blocks only deposits and withdrawals: on a
\* locked account Dispute, Resolve and ChargeBack still succeed, while Deposit
\* and Withdrawal fail with AccountLocked and change nothing.
C21_LockBlocksWithAccountLocked ==
    /\ LockedAccountIsStillSettled
    /\ OnLockedAccount => (returned.result = Err(AccountLocked) /\ store = returned.pre)

\* C21 (amended): as above, a Deposit or Withdrawal with a tx_id not yet
\* stored failing with AccountLocked, also when the withdrawal exceeds the
\* available funds; one with a stored tx_id fails before the lock is looked at.
C21_LockBlocksOnlyLedgerOrders ==
    /\ LockedAccountIsStillSettled
    /\ (OnLockedAccount /\ RetTx \notin DOMAIN returned.pre.transactions)
       => (returned.result = Err(AccountLocked) /\ store = returned.pre)
    /\ (OnLockedAccount /\ RetTx \in DOMAIN returned.pre.transactions)
       => (returned.result.err.kind # "AccountLocked" /\ store = returned.pre)

C21_Witness ==
    /\ OnLockedAccount
    /\ returned.order.kind.type = "Withdrawal"
    /\ RetTx \notin DOMAIN store.transactions
    /\ store.accounts[RetClient].available < RetAmount
    /\ returned.result = Err(AccountLocked)

\* the other half of C21: a Dispute accepted on a locked account
C21_WitnessDispute ==
    /\ returned.some /\ returned.result.ok
    /\ returned.order.kind.type = "Dispute"
    /\ returned.pre.accounts[store.transactions[RetRelated].client_id].locked
    /\ store.accounts[store.transactions[RetRelated].client_id].available < 0

\* C22: a transaction is stored only by a successful Deposit or Withdrawal:
\* an order changes the transaction store only by adding its own transaction
\* when it succeeds as a Deposit/Withdrawal; a Dispute, Resolve or ChargeBack
\* never changes it (neither while it runs nor when it returns), is never
\* rejected for its own tx_id being stored, and on success returns the
\* order's own tx_id, client_id and kind.
C22_OnlyLedgerOrdersAreStored ==
    /\ \A t \in Threads :
         (pc[t] # "idle" /\ ~IsLedgerKind(order[t].kind) /\ pc[t] # "panicked")
         => store.transactions = pre[t].transactions
    /\ returned.some
       => /\ store.transactions # returned.pre.transactions
             => /\ IsLedgerKind(returned.order.kind)
                /\ returned.result.ok
                /\ RetTx \notin DOMAIN returned.pre.transactions
                /\ store.transactions = Insert(returned.pre.transactions, RetTx, returned.order)
          /\ ~IsLedgerKind(returned.order.kind)
             => /\ returned.result.err.kind
                      \notin {"DuplicateTransactionId", "TransactionAlreadyExists"}
                /\ returned.result.ok => returned.result.value = returned.order

C22_Witness ==
    /\ returned.some /\ returned.result.ok
    /\ returned.order.kind.type = "Dispute"
    /\ RetTx = RetRelated
    /\ store.transactions[RetTx].kind.type = "Deposit"
    /\ store.transactions[RetTx].client_id # RetClient
    /\ returned.result.value.client_id = RetClient

\* C23: a stored transaction is immutable and never deleted: whatever a step
\* of whatever order does, get_transaction(tx_id) returns afterwards what it
\* returned before, for every tx_id it found.
C23_StoredTransactionIsImmutable ==
    [][\A k \in TxIds :
          get_transaction(store, k).some
          => get_transaction(store', k) = get_transaction(store, k)]_vars

C23_Witness ==
    /\ returned.some /\ returned.result.ok
    /\ returned.order.kind.type = "ChargeBack"
    /\ get_transaction(store, RetRelated) = get_transaction(returned.pre, RetRelated)
    /\ get_transaction(store, RetRelated).val.kind.type = "Deposit"
    /\ Cardinality(DOMAIN store.transactions) = NumTx

\* A step gives client c an account (none is stored at the start) only as the
\* store_account of a Deposit or Withdrawal order for c.
AccountAppears ==
    \A c \in Clients :
        (c \notin DOMAIN store.accounts /\ c \in DOMAIN store'.accounts)
        => \E t \in Threads :
              /\ pc[t] = "store_account" /\ pc'[t] # pc[t]
              /\ IsLedgerKind(order[t].kind)
              /\ order[t].client_id = c

\* C24 (as claimed): accounts are created lazily: none before a Deposit or
\* Withdrawal order for the client, and once a Deposit or Withdrawal order
\* with a fresh tx_id has been processed the client's account is present.
C24_FirstOrderCreatesTheAccount ==
    /\ [][AccountAppears]_vars
    /\ []((returned.some /\ IsLedgerKind(returned.order.kind)
             /\ RetTx \notin DOMAIN returned.pre.transactions)
           => RetClient \in DOMAIN store.accounts)

\* C24 (amended): none before a Deposit or Withdrawal order for the client;
\* a Deposit with a fresh tx_id leaves the client's account present; a
\* Withdrawal with a fresh tx_id for a client without account fails with
\* InsufficientAvailableFunds{0, amount} and still leaves no account.
C24_FirstDepositCreatesTheAccount ==
    /\ [][AccountAppears]_vars
    /\ []((returned.some /\ RetTx \notin DOMAIN returned.pre.transactions)
           => /\ returned.order.kind.type = "Deposit"
                 => RetClient \in DOMAIN store.accounts
              /\ (/\ returned.order.kind.type = "Withdrawal"
                  /\ RetClient \notin DOMAIN returned.pre.accounts)
                 => /\ returned.result
                          = Err(InsufficientAvailableFunds(0, RetAmount))
                    /\ RetClient \notin DOMAIN store.accounts)

C24_Witness ==
    /\ returned.some
    /\ returned.order.kind.type = "Withdrawal"
    /\ returned.result = Err(InsufficientAvailableFunds(0, RetAmount))
    /\ RetClient \notin DOMAIN store.accounts
    /\ store.accounts # <<>>

\* C25: get_accounts returns exactly one record per client that has a stored
\* account, each equal to what get_account returns for that client at that
\* point; get_account returns the stored account or nothing; and neither
\* call changes the storage (or leaves the lock held).
C25_GetAccountsIsTheStoredAccounts ==
    /\ []((observed.some /\ observed.call = "get_accounts")
           => /\ Len(observed.accounts) = Cardinality(DOMAIN store.accounts)
              /\ \A c \in DOMAIN store.accounts :
                   Cardinality({i \in DOMAIN observed.accounts :
                                   observed.accounts[i].client_id = c}) = 1
              /\ \A i \in DOMAIN observed.accounts :
                   get_account(store, observed.accounts[i].client_id)
                       = Some(observed.accounts[i]))
    /\ []((observed.some /\ observed.call = "get_account")
           => observed.account =
                  IF observed.client_id \in DOMAIN store.accounts
                  THEN Some(store.accounts[observed.client_id])
                  ELSE None)
    /\ [][observed'.some => (store' = store /\ rwlock' = rwlock)]_vars

C25_Witness ==
    /\ observed.some
    /\ observed.call = "get_accounts"
    /\ Len(observed.accounts) = NumClients
    /\ observed.accounts[1].client_id > observed.accounts[2].client_id
    /\ observed.accounts[1].locked
    /\ \E t \in Threads : pc[t] = "dup_read" /\ t \in rwlock.readers

\* C26: the disputed flag is defined only for stored transactions:
\* is_disputed(tx_id) is absent exactly when no transaction is stored under
\* tx_id; a transaction just stored is not disputed; set_disputed on a tx_id
\* with no stored transaction fails and leaves the disputed set (the whole
\* storage) unchanged.
C26_FlagOnlyForStoredTransactions ==
    /\ \A k \in TxIds : (is_disputed(store, k) = None) <=> (get_transaction(store, k) = None)
    /\ (observed.some /\ observed.call = "store_transaction" /\ observed.ok)
       => /\ observed.arg.tx_id \notin DOMAIN observed.before.transactions
          /\ is_disputed(store, observed.arg.tx_id) = Some(FALSE)
    /\ (/\ observed.some /\ observed.call = "set_disputed"
        /\ observed.arg \notin DOMAIN observed.before.transactions)
       => /\ ~observed.ok
          /\ observed.err = TransactionDoesNotExist(observed.arg)
          /\ store = observed.before

C26_Witness ==
    /\ observed.some /\ observed.call = "set_disputed"
    /\ observed.flag
    /\ ~observed.ok
    /\ is_disputed(store, observed.arg) = None
    /\ store.disputed # {}

InCall(t) == pc[t] \notin {"idle", "panicked"}
HoldsGuard(t) == t \in rwlock.readers \/ rwlock.writer = t

\* C27: process_order always terminates. With several concurrent callers and
\* a fair lock: a call that waits for the lock holds no guard, some call in
\* flight can always take a step (no deadlock), no call panics, and every
\* call in flight eventually returns a transaction or an error.
C27_ProcessOrderTerminates ==
    /\ [](\A t \in Threads :
            /\ pc[t] \in {"idle", "want_write"} => ~HoldsGuard(t)
            /\ pc[t] # "panicked")
    /\ []((\E t \in Threads : InCall(t))
           => \E u \in Threads : ENABLED (Running(u) \/ lock_write(u)))
    /\ \A t \in Threads :
         InCall(t) ~> /\ returned.some /\ returned.thread = t
                      /\ pc[t] = "idle"
                      /\ \/ returned.result.ok /\ returned.result.value = returned.order
                         \/ ~returned.result.ok /\ returned.result.err # NoError

\* a call that had to wait for the write lock behind another writer returned
C27_Witness ==
    /\ returned.some
    /\ returned.result.ok
    /\ IsLedgerKind(returned.order.kind)
    /\ returned.at_lock # returned.pre
    /\ \E u \in Threads \ {returned.thread} : pc[u] = "want_write"

\* the accounts a get_account/get_accounts call of the last step returned
AccountsSeen ==
    IF observed.call = "get_account"
    THEN IF observed.account.some THEN {observed.account.val} ELSE {}
    ELSE {observed.accounts[i] : i \in DOMAIN observed.accounts}

\* the thread holds the write guard: its order may be applied in part
InWriteSection(t) == pc[t] \in {"locked", "store_account", "store_transaction", "set_disputed"}

\* C28: a reader never observes an intermediate state of an order. Whenever
\* get_account or get_accounts returns beside running process_order calls,
\* no call is between taking the write lock and returning (so the storage
\* holds each order entirely or not at all), the accounts returned are the
\* stored ones, and each satisfies total = available + held.
C28_ReaderSeesWholeOrders ==
    (observed.some /\ observed.call \in {"get_account", "get_accounts"})
    => /\ \A t \in Threads : ~InWriteSection(t)
       /\ rwlock.writer = 0
       /\ \A a \in AccountsSeen :
            /\ a.total = a.available + a.held
            /\ get_account(store, a.client_id) = Some(a)
       /\ observed.call = "get_account"
          => observed.account = get_account(store, observed.client_id)

\* a reader sees an account with a held amount while two orders are in flight
C28_Witness ==
    /\ observed.some /\ observed.call = "get_account"
    /\ observed.account.some
    /\ observed.account.val.held > 0
    /\ \E t \in Threads :
         /\ pc[t] = "want_write"
         /\ \E u \in Threads \ {t} : pc[u] = "dup_read"

\* the orders of `sent` from position a to position b
Sent(a, b) == SubSeq(channel.sent, a, b)

\* C29: the accountant does not stop on a failed order. The orders passed to
\* process_order are, at every moment, the first orders that were sent, each
\* once and in the order sent, the rest waiting in the channel; the call in
\* progress is for the last order passed; no call panics; a failed call
\* leaves the accountant running; and every order sent is eventually
\* processed, whatever the orders before it returned.
C29_EveryOrderIsProcessedInOrder ==
    /\ [](/\ channel.passed = Sent(1, Len(channel.passed))
          /\ channel.queue = Sent(Len(channel.passed) + 1, Len(channel.sent))
          /\ \A t \in env.callers :
               /\ pc[t] # "panicked"
               /\ IF pc[t] = "idle"
                  THEN Len(channel.results) = Len(channel.passed)
                  ELSE /\ Len(channel.results) + 1 = Len(channel.passed)
                       /\ order[t] = Transaction(channel.passed[Len(channel.passed)]))
    /\ [][(returned'.some /\ ~returned'.result.ok)
           => /\ ~channel'.stopped
              /\ channel'.queue # <<>> => Offered' # {}]_vars
    /\ \A n \in 1..PipeSent :
         (Len(channel.sent) >= n) ~> (Len(channel.results) >= n)

\* the third order is applied after the second one failed
C29_Witness ==
    /\ channel.results = <<TRUE, FALSE, TRUE>>
    /\ returned.some /\ returned.result.ok
    /\ returned.order = Transaction(channel.sent[3])
    /\ store # returned.pre

\* C30: the accountant stops when the channel is closed. Once the Sender is
\* dropped Accountant::run eventually returns; when it has returned the
\* channel is closed and empty and every order sent was passed to
\* process_order and its call ended; nothing is processed afterwards.
C30_StopsWhenTheChannelIsClosed ==
    /\ [](channel.stopped
          => /\ channel.closed
             /\ channel.queue = <<>>
             /\ channel.passed = channel.sent
             /\ Len(channel.results) = Len(channel.sent)
             /\ \A t \in env.callers : pc[t] = "idle")
    /\ [][channel.stopped => (channel' = channel /\ store' = store)]_vars
    /\ channel.closed ~> channel.stopped

\* run returned after three orders, one of them failed
C30_Witness ==
    /\ channel.stopped
    /\ Len(channel.sent) = PipeSent
    /\ \E i \in DOMAIN channel.results : ~channel.results[i]
    /\ \E i \in DOMAIN channel.results : channel.results[i]

\* A Deposit or Withdrawal returned for a client whose account was unlocked
\* with funds held by a dispute and nothing available (zero or less).
OnOverdrawnByDispute ==
    /\ returned.some
    /\ IsLedgerKind(returned.order.kind)
    /\ RetClient \in DOMAIN returned.pre.accounts
    /\ ~returned.pre.accounts[RetClient].locked
    /\ returned.pre.accounts[RetClient].held > 0
    /\ returned.pre.accounts[RetClient].available <= 0

\* what C33 says of an order with the given freshness condition
DisputedFundsAreSpent(fresh) ==
    (OnOverdrawnByDispute /\ fresh)
    => LET before == returned.pre.accounts[RetClient]
       IN IF returned.order.kind.type = "Withdrawal"
          THEN /\ returned.result =
                    Err(InsufficientAvailableFunds(before.available, RetAmount))
               /\ store = returned.pre
          ELSE /\ returned.result = Ok(returned.order)
               /\ store.accounts[RetClient].available = before.available + RetAmount
               /\ store.accounts[RetClient].held = before.held

\* C33 (as claimed): while an unlocked account has nothing available because
\* of a dispute, every Withdrawal for the client fails with
\* InsufficientAvailableFunds and a Deposit still succeeds and raises
\* available by its amount.
C33_EveryWithdrawalFailsForFunds == DisputedFundsAreSpent(TRUE)

\* C33 (amended): the same for a Withdrawal or Deposit whose tx_id is not yet
\* stored; one with a stored tx_id fails with DuplicateTransactionId and
\* changes nothing.
C33_DisputedFundsCannotBeWithdrawn ==
    /\ DisputedFundsAreSpent(RetTx \notin DOMAIN returned.pre.transactions)
    /\ (OnOverdrawnByDispute /\ RetTx \in DOMAIN returned.pre.transactions)
       => /\ returned.result = Err(DuplicateTransactionId(RetTx))
          /\ store = returned.pre

\* a fresh Withdrawal refused while the only deposit is disputed
C33_Witness ==
    /\ OnOverdrawnByDispute
    /\ returned.order.kind.type = "Withdrawal"
    /\ RetTx \notin DOMAIN returned.pre.transactions
    /\ returned.result.err.kind = "InsufficientAvailableFunds"
    /\ store.accounts[RetClient].total >= RetAmount

\* the other half of C33: a fresh Deposit accepted on such an account
C33_WitnessDeposit ==
    /\ OnOverdrawnByDispute
    /\ returned.order.kind.type = "Deposit"
    /\ returned.result.ok

\* the sum of the amounts of the stored transactions whose ids are in S
RECURSIVE SumOfAmounts(_, _)
SumOfAmounts(transactions, S) ==
    IF S = {}
    THEN 0
    ELSE LET k == CHOOSE x \in S : TRUE
         IN transactions[k].kind.arg + SumOfAmounts(transactions, S \ {k})

\* the stored transactions of a client that are of the given kind
TransactionsOf(st, c, type) ==
    {k \in DOMAIN st.transactions :
        st.transactions[k].client_id = c /\ st.transactions[k].kind.type = type}

\* no call holds the write guard: the storage is as the finished calls left it
Quiescent == \A t \in Threads : ~InWriteSection(t)

\* C34: whenever no call is inside its write section, every stored account's
\* held is the sum of the amounts of the client's deposits that are flagged
\* disputed: never negative, and zero when none of them is disputed.
C34_HeldIsTheDisputedDeposits ==
    Quiescent
    => \A c \in DOMAIN store.accounts :
         /\ store.accounts[c].held =
                SumOfAmounts(store.transactions,
                             TransactionsOf(store, c, "Deposit") \cap store.disputed)
         /\ store.accounts[c].held >= 0

\* two deposits of one client are disputed at once
C34_Witness ==
    /\ Quiescent
    /\ \E c \in DOMAIN store.accounts :
         /\ Cardinality(TransactionsOf(store, c, "Deposit") \cap store.disputed) = 2
         /\ store.accounts[c].held = 2 * MaxAmount

\* a Resolve or ChargeBack returned whose related transaction was flagged
\* disputed when the call took the lock
SettlesADispute ==
    /\ returned.some
    /\ returned.order.kind.type \in {"Resolve", "ChargeBack"}
    /\ RetRelated \in returned.at_lock.disputed

\* C35: a Resolve or ChargeBack of a currently disputed transaction never
\* fails with InsufficientHeldFunds: when the disputed check passes the
\* depositor's held is at least the deposit's amount (also while the call
\* runs), the order succeeds, held drops by the amount and the flag is
\* cleared; no order at all returns InsufficientHeldFunds.
C35_SettlingNeverLacksHeldFunds ==
    /\ \A t \in Threads :
         (/\ pc[t] = "locked"
          /\ order[t].kind.type \in {"Resolve", "ChargeBack"}
          /\ IsDisputed(store, order[t].kind.arg))
         => LET related == store.transactions[order[t].kind.arg]
            IN store.accounts[related.client_id].held >= related.kind.arg
    /\ returned.some => returned.result.err.kind # "InsufficientHeldFunds"
    /\ SettlesADispute
       => LET related == returned.at_lock.transactions[RetRelated]
              c == related.client_id
          IN /\ returned.result = Ok(returned.order)
             /\ RetRelated \notin store.disputed
             /\ store.accounts[c].held = returned.at_lock.accounts[c].held - related.kind.arg
             /\ store.accounts[c].held >= 0

\* a dispute is settled with exactly the held funds it needs, while another
\* thread is inside process_order
C35_Witness ==
    /\ SettlesADispute
    /\ returned.result.ok
    /\ LET related == returned.at_lock.transactions[RetRelated]
       IN /\ returned.at_lock.accounts[related.client_id].held = related.kind.arg
          /\ store.accounts[related.client_id].held = 0
    /\ \E u \in Threads \ {returned.thread} : pc[u] # "idle"

\* C36: accounts and transactions are referentially consistent in every
\* state, with concurrent callers too: the client of every stored transaction
\* has a stored account and every disputed tx_id has a stored transaction, so
\* the unwrap()s of process_dispute, process_resolve and process_chargeback
\* always find a value: no thread panics and the lock is never poisoned.
C36_AccountsAndTransactionsAreConsistent ==
    /\ \A k \in DOMAIN store.transactions :
         /\ store.transactions[k].tx_id = k
         /\ store.transactions[k].client_id \in DOMAIN store.accounts
    /\ store.disputed \subseteq DOMAIN store.transactions
    /\ \A c \in DOMAIN store.accounts : store.accounts[c].client_id = c
    /\ \A t \in Threads : pc[t] # "panicked"
    /\ ~rwlock.poisoned

\* a ChargeBack is about to unwrap the disputed deposit and its account while
\* the other thread waits for the write lock
C36_Witness ==
    \E t \in Threads :
        /\ pc[t] = "locked"
        /\ order[t].kind.type = "ChargeBack"
        /\ IsDisputed(store, order[t].kind.arg)
        /\ \E u \in Threads \ {t} : pc[u] = "want_write"

\* a Deposit or Withdrawal returned refused for the lock or for funds
RefusedLedgerOrder ==
    /\ returned.some
    /\ IsLedgerKind(returned.order.kind)
    /\ returned.result.err.kind \in {"AccountLocked", "InsufficientAvailableFunds"}

\* C37: a refused Deposit or Withdrawal does not consume its tx_id. When an
\* order fails with AccountLocked or InsufficientAvailableFunds nothing is
\* stored (no transaction under its tx_id); as long as no order with that
\* tx_id is accepted none is stored under it, a Dispute of it fails with
\* RelatedTransactionNotFound, and a Deposit or Withdrawal that uses it again
\* is not rejected as a duplicate.
C37_RefusedOrderKeepsItsIdFree ==
    /\ [](RefusedLedgerOrder
          => /\ RetTx \notin DOMAIN store.transactions
             /\ store = returned.pre
             /\ RetTx \in history.rejected)
    /\ [](history.rejected \cap DOMAIN store.transactions = {})
    /\ []((/\ returned.some /\ returned.order.kind.type = "Dispute"
           /\ RetRelated \in history.rejected)
          => returned.result = Err(RelatedTransactionNotFound(RetRelated)))
    /\ [][(/\ returned'.some /\ IsLedgerKind(returned'.order.kind)
           /\ returned'.order.tx_id \in history.rejected)
          => returned'.result.err.kind # "DuplicateTransactionId"]_vars

\* a Dispute names the tx_id of a Deposit that a locked account refused
C37_Witness ==
    /\ returned.some /\ returned.order.kind.type = "Dispute"
    /\ RetRelated \in history.rejected
    /\ returned.result = Err(RelatedTransactionNotFound(RetRelated))
    /\ \E c \in DOMAIN store.accounts : store.accounts[c].locked

\* C38: ledger conservation with a single caller. Between two orders, each
\* account's total is the sum of the client's stored Deposit amounts, minus
\* the sum of its stored Withdrawal amounts, minus the amounts its accepted
\* ChargeBacks removed.
C38_TotalIsTheLedgerBalance ==
    Quiescent
    => \A c \in DOMAIN store.accounts :
         store.accounts[c].total =
             SumOfAmounts(store.transactions, TransactionsOf(store, c, "Deposit"))
             - SumOfAmounts(store.transactions, TransactionsOf(store, c, "Withdrawal"))
             - history.charged[c]

\* a deposit partly withdrawn and then charged back: all three terms count
C38_Witness ==
    /\ Quiescent
    /\ \E c \in DOMAIN store.accounts :
         /\ history.charged[c] > 0
         /\ TransactionsOf(store, c, "Withdrawal") # {}
         /\ TransactionsOf(store, c, "Deposit") # {}
         /\ store.accounts[c].total < 0

\* the clients whose stored account differs between two storages
ChangedAccounts(before, after) ==
    {c \in DOMAIN before.accounts \cup DOMAIN after.accounts :
        get_account(before, c) # get_account(after, c)}

\* the only client whose account the returned order may have changed
TargetClients ==
    IF IsLedgerKind(returned.order.kind)
    THEN {RetClient}
    ELSE IF RetRelated \in DOMAIN returned.pre.transactions
    THEN {returned.pre.transactions[RetRelated].client_id}
    ELSE {}

\* C39: accounts are isolated from each other. A process_order call changes
\* at most one stored account: that of the order's client for a Deposit or
\* Withdrawal, that of the related deposit's client for a Dispute, Resolve or
\* ChargeBack; every other account is as it was when the call began, and no
\* step of a call changes two accounts.
C39_OneAccountPerOrder ==
    /\ [](returned.some
          => /\ ChangedAccounts(returned.pre, store) \subseteq TargetClients
             /\ ~returned.result.ok => ChangedAccounts(returned.pre, store) = {})
    /\ [][Cardinality(ChangedAccounts(store, store')) <= 1]_vars

\* client 2's order settles or opens a dispute on client 1's deposit: account
\* 1 changes, account 2 exists and does not
C39_Witness ==
    /\ returned.some /\ returned.result.ok
    /\ ~IsLedgerKind(returned.order.kind)
    /\ TargetClients # {RetClient}
    /\ RetClient \in DOMAIN store.accounts
    /\ ChangedAccounts(returned.pre, store) = TargetClients
    /\ TargetClients # {}

\* C40: chargeback has no floor at zero. A ChargeBack of a disputed deposit
\* succeeds whatever the sign of the balances: available stays as the dispute
\* left it, held and total drop by the deposit's amount, the account is
\* locked. So a client with one deposit `a`, withdrawals of `w` in all and the
\* deposit charged back once ends with available = -w, held = 0, total = -w,
\* locked (deposit 100, withdraw 30, dispute, chargeback: -30, 0, -30).
C40_ChargebackHasNoFloor ==
    /\ (SettlesADispute /\ returned.order.kind.type = "ChargeBack")
       => LET related == returned.at_lock.transactions[RetRelated]
              before == returned.at_lock.accounts[related.client_id]
          IN /\ returned.result = Ok(returned.order)
             /\ store.accounts[related.client_id] =
                    [client_id |-> related.client_id,
                     available |-> before.available,
                     held |-> before.held - related.kind.arg,
                     total |-> before.total - related.kind.arg,
                     locked |-> TRUE]
    /\ Quiescent
       => \A c \in DOMAIN store.accounts :
            LET deposits == TransactionsOf(store, c, "Deposit")
                w == SumOfAmounts(store.transactions, TransactionsOf(store, c, "Withdrawal"))
            IN (/\ Cardinality(deposits) = 1
                /\ history.charged[c] = SumOfAmounts(store.transactions, deposits)
                /\ store.disputed = {})
               => store.accounts[c] =
                     [client_id |-> c, available |-> 0 - w, held |-> 0, total |-> 0 - w,
                      locked |-> TRUE]

\* the ChargeBack of a deposit that was partly withdrawn has just succeeded
C40_Witness ==
    /\ SettlesADispute /\ returned.order.kind.type = "ChargeBack"
    /\ returned.result.ok
    /\ LET c == store.transactions[RetRelated].client_id
       IN /\ TransactionsOf(store, c, "Withdrawal") # {}
          /\ store.accounts[c].available < 0
          /\ store.accounts[c].held = 0
          /\ store.accounts[c].total = store.accounts[c].available
          /\ store.accounts[c].locked

Exported == observed.some /\ observed.call = "export"

\* C31: the snapshot is exported only after the reader and the accountant
\* have both finished. When the exporter has taken get_accounts() the Sender
\* is dropped, Accountant::run has returned, every order sent was processed,
\* the accounts exported are the stored ones (each once), and no step after
\* the snapshot changes the storage or the channel.
C31_ExportIsTheFinalSnapshot ==
    /\ [](Exported
          => /\ channel.closed /\ channel.stopped
             /\ channel.queue = <<>>
             /\ channel.passed = channel.sent
             /\ Len(channel.results) = Len(channel.sent)
             /\ \A t \in Threads : pc[t] = "idle"
             /\ Len(observed.accounts) = Cardinality(DOMAIN store.accounts)
             /\ \A c \in DOMAIN store.accounts :
                  \E i \in DOMAIN observed.accounts : observed.accounts[i] = store.accounts[c])
    /\ [][Exported => (store' = store /\ channel' = channel)]_vars

\* the export follows three orders, the last of which changed the account
C31_Witness ==
    /\ Exported
    /\ Len(channel.sent) = PipeSent
    /\ channel.results[PipeSent]
    /\ observed.accounts # <<>>
    /\ \E i \in DOMAIN channel.results : ~channel.results[i]

\* a record the core may receive: it deserialized, its type is known
\* whatever its case, and a deposit or withdrawal has an amount above zero
IsWellFormed(rec) ==
    /\ rec.ok
    /\ to_lowercase(rec.entity.type)
          \in {"deposit", "withdrawal", "dispute", "resolve", "chargeback"}
    /\ to_lowercase(rec.entity.type) \in {"deposit", "withdrawal"}
       => (rec.entity.amount.some /\ rec.entity.amount.val > 0)

\* the variant a type string stands for
VariantOf(type) ==
    CASE type = "deposit" -> "Deposit"
      [] type = "withdrawal" -> "Withdrawal"
      [] type = "dispute" -> "Dispute"
      [] type = "resolve" -> "Resolve"
      [] type = "chargeback" -> "ChargeBack"
      [] OTHER -> "None"

\* C32: the reader never hands a malformed record to the core. The orders
\* sent are, in file order, those of the well-formed records read so far,
\* one each with the record's tx, client, type and amount; every Deposit or
\* Withdrawal sent has an amount above zero; a record that is not well
\* formed changes nothing on the channel and leaves the reader reading.
C32_OnlyWellFormedRecordsAreSent ==
    /\ [](LET good == SelectSeq(csv.rows, IsWellFormed)
          IN /\ Len(channel.sent) = Len(good)
             /\ \A i \in DOMAIN channel.sent :
                  LET o == channel.sent[i]
                      e == good[i].entity
                  IN /\ o.tx_id = e.tx /\ o.client_id = e.client
                     /\ o.kind.type = VariantOf(to_lowercase(e.type))
                     /\ IF IsLedgerKind(o.kind)
                        THEN o.kind.arg = e.amount.val /\ o.kind.arg > 0
                        ELSE o.kind.arg = e.tx)
    /\ [](csv.state # "failed")
    /\ [][(Len(csv'.rows) > Len(csv.rows) /\ ~IsWellFormed(csv'.rows[Len(csv'.rows)]))
          => (channel' = channel /\ csv'.state = "reading")]_vars

\* a line that does not parse and a deposit of zero are skipped, and the
\* mixed-case withdrawal after them is sent
C32_Witness ==
    /\ Len(csv.rows) = 3
    /\ ~csv.rows[1].ok
    /\ csv.rows[2].ok /\ csv.rows[2].entity.type = "deposit"
    /\ csv.rows[2].entity.amount = [some |-> TRUE, val |-> 0]
    /\ csv.rows[3].ok /\ csv.rows[3].entity.type = "Withdrawal"
    /\ Len(channel.sent) = 1
    /\ channel.sent[1].kind = [type |-> "Withdrawal", arg |-> 1]
    /\ csv.state = "done"

====
